---- MODULE Spec2Model ----
(***************************************************************************)
(* Model of lang/funcs/struct_lookup_optional_func.go: the polymorphic     *)
(* function _struct_lookup_optional.  Three parts are modelled:            *)
(*   - Stream, the streaming execution loop          (specification Spec)  *)
(*   - Build / Validate / Info, the monomorphization (BuildSpec)           *)
(*   - the generator closure returned by Unify       (UnifySpec)           *)
(***************************************************************************)
EXTENDS Integers, Sequences, FiniteSets, TLC

VARIABLES
    \* ---- StructLookupOptionalFunc fields -------------------------------
    Type,      \* obj.Type : container type recorded by Build
    Out,       \* obj.Out  : return type recorded by Build
    last,      \* obj.last : last aggregate received by Stream
    field,     \* obj.field: pinned selector name
    result,    \* obj.result: last calculated output
    \* ---- Stream: control state and channels ----------------------------
    pc,        \* position of Stream: "recv" (first select), "send" (second
               \* select), "done" (returned)
    err,       \* value returned by Stream (NoErr while running / nil)
    output,    \* values sent on obj.init.Output, each with the index of
               \* the received input that triggered it
    closes,    \* number of times obj.init.Output was closed
    ctxDone,   \* ctx.Done() has fired
    inputOpen, \* obj.init.Input is not closed yet
    recvd,     \* history: the aggregates taken from obj.init.Input
    computed,  \* history: indices (in recvd) of the inputs whose lookup ran
    \* ---- Build / Validate / Info ---------------------------------------
    call,      \* the last of these methods called, its argument and return
    \* ---- Unify: the generator closure and what the solver hands it -----
    fnInvariants, \* the solver's invariant list (the relevant ones)
    exprType,     \* Expr.Type() of the call expression and its arguments
    solved,       \* the solver's partial solution for these expressions
    argValue,     \* Args[1].Value(): the selector's static value, if known
    genRet,       \* what the generator returned in the current solver round
    asserted,     \* history: <<placeholder, type>> of every Equals returned
    firstOk,      \* history: facts known at the first call that returned
                  \* invariants, -1 before it
    noProgress    \* history: a call returned "couldn't generate new invariants"

streamVars == <<last, field, result, pc, err, output, closes, ctxDone,
                inputOpen, recvd, computed>>
buildVars == <<Type, Out, call>>
unifyVars == <<fnInvariants, exprType, solved, argValue, genRet, asserted,
               firstOk, noProgress>>
outsideStream == <<buildVars, unifyVars>>
outsideBuild == <<streamVars, unifyVars>>
outsideUnify == <<streamVars>>
vars == <<Type, Out, last, field, result, pc, err, output, closes, ctxDone,
          inputOpen, recvd, computed, call, fnInvariants, exprType, solved,
          argValue, genRet, asserted, firstOk, noProgress>>

-----------------------------------------------------------------------------
(* Bounds *)
MaxInputs == 3      \* number of aggregates the input stream delivers
MaxFacts == 4       \* number of types and values the solver learns

-----------------------------------------------------------------------------
(* Argument names *)
structLookupOptionalArgNameStruct == "struct"
structLookupOptionalArgNameField == "field"
structLookupOptionalArgNameOptional == "optional"

(* Types (types.Type): every type is a record tagged with its kind; the nil
   pointer is NilType *)
NilType == [Kind |-> "nil"]
TypeStr == [Kind |-> "str"]
TypeInt == [Kind |-> "int"]
StructType(ord, map) == [Kind |-> "struct", Ord |-> ord, Map |-> map]
FuncType(ord, map, out) == [Kind |-> "func", Ord |-> ord, Map |-> map, Out |-> out]
NilMap == [Kind |-> "nilmap"]     \* a nil Go map

\* (*types.Type).Cmp of two non-nil types: nil error iff structurally equal
TypeCmp(a, b) == a = b

Range(q) == {q[i] : i \in 1..Len(q)}

\* v, exists := m[k] on a Go map of types
MapGet(m, k) ==
    IF m # NilMap /\ k \in DOMAIN m THEN [t |-> m[k], exists |-> TRUE]
                                   ELSE [t |-> NilType, exists |-> FALSE]

\* struct{a int; b str} has the member "a", struct{b str} has not
StructAB == StructType(<<"a", "b">>, [a |-> TypeInt, b |-> TypeStr])
StructB == StructType(<<"b">>, [b |-> TypeStr])

(* Values (types.Value): every value is a record tagged with its kind *)
NilValue == [Kind |-> "nil"]
IntValue(n) == [Kind |-> "int", V |-> n]
StrValue(s) == [Kind |-> "str", V |-> s]
StructValue(m) == [Kind |-> "struct", V |-> m]

NoErr == "nil"
ErrEmptyField == "received empty field"
ErrFieldChanged == "input field changed"

\* types.Value.Cmp: nil error iff the two values are structurally equal
ValueCmp(a, b) == a = b

\* (*types.StructValue).Lookup: the member value and whether it exists
Lookup(st, k) ==
    IF k \in DOMAIN st.V THEN [val |-> st.V[k], exists |-> TRUE]
                         ELSE [val |-> NilValue, exists |-> FALSE]

\* Value.Str(): raw string of a str value
Str(v) == v.V

\* The aggregates the engine delivers: {struct, field, optional}.  The
\* container values are of struct type {a int}: "a" is a member, "b" is not.
Selectors == {"", "a", "b"}
Ints == {1, 2}
Containers == {StructValue([a |-> IntValue(n)]) : n \in Ints}
Inputs ==
    {StructValue([struct |-> c, field |-> StrValue(s), optional |-> IntValue(n)]) :
        c \in Containers, s \in Selectors, n \in Ints}

ArgStruct(input) == input.V[structLookupOptionalArgNameStruct]
ArgField(input) == Str(input.V[structLookupOptionalArgNameField])
ArgOptional(input) == input.V[structLookupOptionalArgNameOptional]

-----------------------------------------------------------------------------
(* Stream: the steps of one evaluation cycle *)

IsDuplicate_Never(lst, input) == FALSE

\* line 510: the received aggregate equals the previous one
IsDuplicate(lst, input) == lst # NilValue /\ ValueCmp(input, lst)

CheckField_NoEmptyCheck(objField, fld) ==
    LET pinned == IF objField = "" THEN fld ELSE objField
    IN  IF fld # pinned THEN ErrFieldChanged ELSE NoErr

\* lines 519-527: the error the selector checks return, NoErr if none
CheckField(objField, fld) ==
    IF fld = "" THEN ErrEmptyField
    ELSE LET pinned == IF objField = "" THEN fld ELSE objField
         IN  IF fld # pinned THEN ErrFieldChanged ELSE NoErr

StoreField_Overwrite(objField, fld) ==
    IF fld = "" THEN objField ELSE fld

\* lines 519-524: obj.field after the selector checks
StoreField(objField, fld) ==
    IF fld = "" THEN objField
    ELSE IF objField = "" THEN fld ELSE objField

LookupResult_Swapped(st, fld, optional) ==
    LET r == Lookup(st, fld)
    IN  IF r.exists THEN optional ELSE r.val

\* lines 533-539: member value if the container has it, else the fallback
LookupResult(st, fld, optional) ==
    LET r == Lookup(st, fld)
    IN  IF r.exists THEN r.val ELSE optional

ResultUnchanged_Never(res, new) == FALSE

\* line 544: the new result equals the last calculated one
ResultUnchanged(res, new) == res # NilValue /\ ValueCmp(new, res)

Return_NoClose(e) ==
    /\ pc' = "done"
    /\ err' = e
    /\ closes' = closes

\* defer close(obj.init.Output) and return e
Return(e) ==
    /\ pc' = "done"
    /\ err' = e
    /\ closes' = closes + 1

\* case input, ok := <-obj.init.Input, ok = true
Recv(input) ==
    /\ pc = "recv"
    /\ inputOpen
    /\ Len(recvd) < MaxInputs
    /\ recvd' = Append(recvd, input)
    /\ UNCHANGED <<ctxDone, inputOpen, output>>
    /\ UNCHANGED outsideStream
    /\ IF IsDuplicate(last, input)
       THEN UNCHANGED <<last, field, result, pc, err, closes, computed>>  \* continue
       ELSE /\ last' = input
            /\ LET st == ArgStruct(input)
                   fld == ArgField(input)
                   optional == ArgOptional(input)
                   e == CheckField(field, fld)
                   res == LookupResult(st, fld, optional)
               IN  /\ field' = StoreField(field, fld)
                   /\ IF e # NoErr
                      THEN Return(e) /\ UNCHANGED <<result, computed>>
                      ELSE /\ computed' = computed \cup {Len(recvd')}
                           /\ IF ResultUnchanged(result, res)
                              THEN UNCHANGED <<result, pc, err, closes>>  \* continue
                              ELSE /\ result' = res
                                   /\ pc' = "send"
                                   /\ UNCHANGED <<err, closes>>

\* case input, ok := <-obj.init.Input, ok = false
RecvClosed ==
    /\ pc = "recv"
    /\ ~inputOpen
    /\ Return(NoErr)
    /\ UNCHANGED <<last, field, result, output, ctxDone, inputOpen, recvd, computed>>
    /\ UNCHANGED outsideStream

RecvCancelled_Missing == FALSE

\* case <-ctx.Done() of the first select
RecvCancelled ==
    /\ pc = "recv"
    /\ ctxDone
    /\ Return(NoErr)
    /\ UNCHANGED <<last, field, result, output, ctxDone, inputOpen, recvd, computed>>
    /\ UNCHANGED outsideStream

Send_Repeat ==
    /\ pc = "send"
    /\ output' = Append(output, [val |-> result, idx |-> Len(recvd)])
    /\ pc' = "send"
    /\ UNCHANGED <<last, field, result, err, closes, ctxDone, inputOpen, recvd, computed>>
    /\ UNCHANGED outsideStream

\* case obj.init.Output <- obj.result
Send ==
    /\ pc = "send"
    /\ output' = Append(output, [val |-> result, idx |-> Len(recvd)])
    /\ pc' = "recv"
    /\ UNCHANGED <<last, field, result, err, closes, ctxDone, inputOpen, recvd, computed>>
    /\ UNCHANGED outsideStream

SendCancelled_Missing == FALSE

\* case <-ctx.Done() of the second select
SendCancelled ==
    /\ pc = "send"
    /\ ctxDone
    /\ Return(NoErr)
    /\ UNCHANGED <<last, field, result, output, ctxDone, inputOpen, recvd, computed>>
    /\ UNCHANGED outsideStream

\* the engine cancels the context
Cancel ==
    /\ ~ctxDone
    /\ ctxDone' = TRUE
    /\ UNCHANGED <<last, field, result, pc, err, output, closes, inputOpen, recvd, computed>>
    /\ UNCHANGED outsideStream

\* the engine closes the input stream
CloseInput ==
    /\ inputOpen
    /\ inputOpen' = FALSE
    /\ UNCHANGED <<last, field, result, pc, err, output, closes, ctxDone, recvd, computed>>
    /\ UNCHANGED outsideStream

-----------------------------------------------------------------------------
(* Build, Validate, Info *)

ErrNotFunc == "input type must be of kind func"
ErrArgCount == "the structlookup function needs exactly three args"
ErrNoReturn == "return type of function must be specified"
ErrNoMap == "invalid input type"
ErrFirstArg == "first arg must be specified"
ErrSecondArg == "second arg must be specified"
ErrFieldNotStr == "field must be an str"
ErrThirdArg == "third arg must be specified"
ErrOptionalMismatch == "optional arg must match return type"
ErrTypeUnspecified == "type is still unspecified"
ErrTypeNotStruct == "type must be a kind of struct"
ErrOutUnspecified == "return type must be specified"

ErrIndexExceeds == "index exceeds arg length"

\* A run-time panic of the Go program: the call does not return
Panic == [panic |-> TRUE]

\* ArgGen(index): seq[index] of a Go slice panics when index is negative
ArgGen(index) ==
    LET seq == <<structLookupOptionalArgNameStruct, structLookupOptionalArgNameField,
                 structLookupOptionalArgNameOptional>>
        l == Len(seq)
    IN  IF index >= l
        THEN [panic |-> FALSE, name |-> "", err |-> ErrIndexExceeds]
        ELSE IF index < 0
             THEN Panic
             ELSE [panic |-> FALSE, name |-> seq[index + 1], err |-> NoErr]

\* the program has crashed in a call of ArgGen
Panicked == call.op = "ArgGen" /\ call.ret.panic

\* the indexes ArgGen is called with
Indexes == -2..4

\* a caller asks for the name of the argument at index
ArgGenCall(index) ==
    /\ ~Panicked
    /\ call' = [op |-> "ArgGen", arg |-> index, ret |-> ArgGen(index)]
    /\ UNCHANGED <<Type, Out>>
    /\ UNCHANGED outsideBuild

\* obj.sig(): func(struct T, field str, optional O) O
sig(T, O) ==
    FuncType(<<structLookupOptionalArgNameStruct, structLookupOptionalArgNameField,
               structLookupOptionalArgNameOptional>>,
             [struct |-> T, field |-> TypeStr, optional |-> O], O)

BuildErr_NoOptionalCheck(typ) ==
    IF typ.Kind # "func" THEN ErrNotFunc
    ELSE IF Len(typ.Ord) # 3 THEN ErrArgCount
    ELSE IF typ.Out = NilType THEN ErrNoReturn
    ELSE IF typ.Map = NilMap THEN ErrNoMap
    ELSE LET tStruct == MapGet(typ.Map, typ.Ord[1])
             tField == MapGet(typ.Map, typ.Ord[2])
             tOptional == MapGet(typ.Map, typ.Ord[3])
         IN  IF ~tStruct.exists \/ tStruct.t = NilType THEN ErrFirstArg
             ELSE IF ~tField.exists \/ tField.t = NilType THEN ErrSecondArg
             ELSE IF ~TypeCmp(tField.t, TypeStr) THEN ErrFieldNotStr
             ELSE IF ~tOptional.exists \/ tOptional.t = NilType THEN ErrThirdArg
             ELSE NoErr

\* lines 408-441: the error Build returns for the signature typ, NoErr if none
BuildErr(typ) ==
    IF typ.Kind # "func" THEN ErrNotFunc
    ELSE IF Len(typ.Ord) # 3 THEN ErrArgCount
    ELSE IF typ.Out = NilType THEN ErrNoReturn
    ELSE IF typ.Map = NilMap THEN ErrNoMap
    ELSE LET tStruct == MapGet(typ.Map, typ.Ord[1])
             tField == MapGet(typ.Map, typ.Ord[2])
             tOptional == MapGet(typ.Map, typ.Ord[3])
         IN  IF ~tStruct.exists \/ tStruct.t = NilType THEN ErrFirstArg
             ELSE IF ~tField.exists \/ tField.t = NilType THEN ErrSecondArg
             ELSE IF ~TypeCmp(tField.t, TypeStr) THEN ErrFieldNotStr
             ELSE IF ~tOptional.exists \/ tOptional.t = NilType THEN ErrThirdArg
             ELSE IF ~TypeCmp(tOptional.t, typ.Out) THEN ErrOptionalMismatch
             ELSE NoErr

Build_RecordsOptional(typ) ==
    /\ ~Panicked
    /\ LET e == BuildErr(typ)
       IN  IF e # NoErr
           THEN /\ call' = [op |-> "Build", arg |-> typ, ret |-> NilType, err |-> e]
                /\ UNCHANGED <<Type, Out>>
           ELSE /\ Type' = MapGet(typ.Map, typ.Ord[3]).t
                /\ Out' = typ.Out
                /\ call' = [op |-> "Build", arg |-> typ, ret |-> sig(Type', Out'),
                            err |-> NoErr]
    /\ UNCHANGED outsideBuild

\* Build(typ)
Build(typ) ==
    /\ ~Panicked
    /\ LET e == BuildErr(typ)
       IN  IF e # NoErr
           THEN /\ call' = [op |-> "Build", arg |-> typ, ret |-> NilType, err |-> e]
                /\ UNCHANGED <<Type, Out>>
           ELSE /\ Type' = MapGet(typ.Map, typ.Ord[1]).t
                /\ Out' = typ.Out
                /\ call' = [op |-> "Build", arg |-> typ, ret |-> sig(Type', Out'),
                            err |-> NoErr]
    /\ UNCHANGED outsideBuild

ValidateErr_NoKindCheck(T, O) ==
    IF T = NilType THEN ErrTypeUnspecified
    ELSE IF O = NilType THEN ErrOutUnspecified
    ELSE NoErr

\* lines 455-467: the error Validate returns, NoErr if none
ValidateErr(T, O) ==
    IF T = NilType THEN ErrTypeUnspecified
    ELSE IF T.Kind # "struct" THEN ErrTypeNotStruct
    ELSE IF O = NilType THEN ErrOutUnspecified
    ELSE NoErr

\* Validate()
Validate ==
    /\ ~Panicked
    /\ call' = [op |-> "Validate", err |-> ValidateErr(Type, Out)]
    /\ UNCHANGED <<Type, Out>>
    /\ UNCHANGED outsideBuild

Info_SigUnguarded ==
    /\ ~Panicked
    /\ call' = [op |-> "Info",
                ret |-> [Pure |-> TRUE, Memo |-> FALSE,
                         Sig |-> sig(Type, Out),
                         Err |-> ValidateErr(Type, Out)]]
    /\ UNCHANGED <<Type, Out>>
    /\ UNCHANGED outsideBuild

\* Info()
Info ==
    /\ ~Panicked
    /\ call' = [op |-> "Info",
                ret |-> [Pure |-> TRUE, Memo |-> FALSE,
                         Sig |-> IF Type # NilType THEN sig(Type, Out) ELSE NilType,
                         Err |-> ValidateErr(Type, Out)]]
    /\ UNCHANGED <<Type, Out>>
    /\ UNCHANGED outsideBuild

\* The candidate signatures handed to Build: every combination of a missing,
\* nil or given type for each of three arguments, with each return type; a
\* nil map; signatures of two and of four arguments; types that are no function
ArgNames == <<"struct", "field", "optional", "extra">>
Missing == [Kind |-> "missing"]    \* the argument name is no key of the map
OutTypes == {NilType, TypeStr, TypeInt}
ArgChoices ==
    {<<a, b, c>> : a \in {Missing, NilType, TypeInt, StructAB},
                   b \in {Missing, NilType, TypeStr, TypeInt},
                   c \in {Missing, NilType, TypeStr, TypeInt}}
    \cup {<<StructAB, b>> : b \in {TypeStr, TypeInt}}
    \cup {<<a, TypeStr, c, TypeInt>> : a \in {StructAB, TypeInt}, c \in {TypeStr, TypeInt}}
ArgMap(ts) ==
    LET present == {i \in 1..Len(ts) : ts[i] # Missing}
    IN  [k \in {ArgNames[i] : i \in present} |->
            ts[CHOOSE i \in present : ArgNames[i] = k]]
BuildSigs ==
    {TypeStr, StructAB}
    \cup {FuncType(SubSeq(ArgNames, 1, Len(ts)), ArgMap(ts), o) :
            ts \in ArgChoices, o \in OutTypes}
    \cup {FuncType(SubSeq(ArgNames, 1, 3), NilMap, o) : o \in OutTypes}

-----------------------------------------------------------------------------
(* Unify: expressions, invariants and the generator closure fn *)

expr == <<"expr">>                    \* the expression Unify was called with
otherExpr == <<"otherExpr">>          \* the expression of another function
callExpr == <<"ExprCall">>            \* cfavInvar.Expr
Arg(i) == <<"Args", i>>               \* cfavInvar.Args[i]
dummyStruct == <<"dummyStruct">>
dummyField == <<"dummyField">>
dummyOptional == <<"dummyOptional">>
dummyOut == <<"dummyOut">>
unusedField(x) == <<"unusedField", x>>

EqualsInvariant(e, t) == [k |-> "Equals", Expr |-> e, Type |-> t]
EqualityInvariant(e1, e2) == [k |-> "Equality", Expr1 |-> e1, Expr2 |-> e2]
EqualityWrapStructInvariant(e1, m, o) ==
    [k |-> "EqualityWrapStruct", Expr1 |-> e1, Expr2Map |-> m, Expr2Ord |-> o]
EqualityWrapCallInvariant(e1, f) ==
    [k |-> "EqualityWrapCall", Expr1 |-> e1, Expr2Func |-> f]
CallFuncArgsValueInvariant(e, f, args) ==
    [k |-> "CallFuncArgsValue", Expr |-> e, Func |-> f, Args |-> args]

\* errors of the generator: the chain of messages, outermost first
GenNoErr == <<>>
ErrNoNewInvariants == <<"couldn't generate new invariants">>
ErrArgs == <<"unable to build function with %d args">>
ErrFieldKind == <<"unable to build function with 1st arg of kind">>
ErrStructKind == <<"unable to build function with 0th arg of kind">>
ErrCmp == <<"type mismatch">>
Wrapf(e, msg) == <<msg>> \o e

\* Expr.Type() and solved[expr]: NilType when unknown
TypeOfExpr(types, e) == IF e \in DOMAIN types THEN types[e] ELSE NilType

FindCfav_AnyFunc(fnInvs) ==
    LET hits == {i \in 1..Len(fnInvs) : fnInvs[i].k = "CallFuncArgsValue"}
    IN  IF hits = {} THEN 0 ELSE CHOOSE i \in hits : \A j \in hits : i <= j

\* lines 164-173: index of the first CallFuncArgsValueInvariant of expr, or 0
FindCfav(fnInvs) ==
    LET hits == {i \in 1..Len(fnInvs) :
                    fnInvs[i].k = "CallFuncArgsValue" /\ fnInvs[i].Func = expr}
    IN  IF hits = {} THEN 0 ELSE CHOOSE i \in hits : \A j \in hits : i <= j

validateArg0_MissingFieldIsError(st, typ, fld) ==
    IF typ = NilType THEN st
    ELSE IF typ.Kind # "struct" THEN [st EXCEPT !.err = ErrStructKind]
    ELSE LET found == \E i \in 1..Len(typ.Ord) : typ.Ord[i] = fld
             m == MapGet(typ.Map, fld)
             t2n == IF fld # "" THEN m.t ELSE st.t2
         IN  IF fld # "" /\ ~(m.exists /\ found)
             THEN [st EXCEPT !.err = <<"struct is missing field">>]
             ELSE IF /\ fld # ""
                     /\ st.t2 # NilType /\ ~TypeCmp(m.t, st.t2)
             THEN [st EXCEPT !.err = Wrapf(ErrCmp, "input type was inconsistent")]
             ELSE IF st.t1 # NilType /\ ~TypeCmp(typ, st.t1)
             THEN [t1 |-> st.t1, t2 |-> t2n,
                   err |-> Wrapf(ErrCmp, "input type was inconsistent")]
             ELSE [t1 |-> typ, t2 |-> t2n, err |-> GenNoErr]

validateArg0_IgnoresKind(st, typ, fld) ==
    IF typ = NilType \/ typ.Kind # "struct" THEN st
    ELSE LET found == \E i \in 1..Len(typ.Ord) : typ.Ord[i] = fld
             m == MapGet(typ.Map, fld)
             t2n == IF fld # "" THEN m.t ELSE st.t2
         IN  IF /\ fld # ""
                /\ m.exists /\ found
                /\ st.t2 # NilType /\ ~TypeCmp(m.t, st.t2)
             THEN [st EXCEPT !.err = Wrapf(ErrCmp, "input type was inconsistent")]
             ELSE IF st.t1 # NilType /\ ~TypeCmp(typ, st.t1)
             THEN [t1 |-> st.t1, t2 |-> t2n,
                   err |-> Wrapf(ErrCmp, "input type was inconsistent")]
             ELSE [t1 |-> typ, t2 |-> t2n, err |-> GenNoErr]

\* lines 231-268: validateArg0 on the locals st = [t1, t2, err]
validateArg0(st, typ, fld) ==
    IF typ = NilType THEN st
    ELSE IF typ.Kind # "struct" THEN [st EXCEPT !.err = ErrStructKind]
    ELSE LET found == \E i \in 1..Len(typ.Ord) : typ.Ord[i] = fld
             m == MapGet(typ.Map, fld)
             t2n == IF fld # "" THEN m.t ELSE st.t2
         IN  IF /\ fld # ""
                /\ m.exists /\ found
                /\ st.t2 # NilType /\ ~TypeCmp(m.t, st.t2)
             THEN [st EXCEPT !.err = Wrapf(ErrCmp, "input type was inconsistent")]
             ELSE IF st.t1 # NilType /\ ~TypeCmp(typ, st.t1)
             THEN [t1 |-> st.t1, t2 |-> t2n,
                   err |-> Wrapf(ErrCmp, "input type was inconsistent")]
             ELSE [t1 |-> typ, t2 |-> t2n, err |-> GenNoErr]

validateArg2OrOut_LastWins(st, typ) ==
    IF typ = NilType THEN st ELSE [st EXCEPT !.t2 = typ]

\* lines 270-282: validateArg2OrOut on the locals st = [t1, t2, err]
validateArg2OrOut(st, typ) ==
    IF typ = NilType THEN st
    ELSE IF st.t2 # NilType /\ ~TypeCmp(typ, st.t2)
    THEN [st EXCEPT !.err = Wrapf(ErrCmp, "input type was inconsistent")]
    ELSE [st EXCEPT !.t2 = typ]

\* lines 284-322: one source checked after the other, the first error returned
\* wrapped
CheckSource(st, next, msg) ==
    IF st.err # GenNoErr THEN st
    ELSE IF next.err # GenNoErr THEN [next EXCEPT !.err = Wrapf(next.err, msg)]
    ELSE next

StructInvariants_AlwaysWrap(t1, fld) ==
    IF t1 = NilType THEN <<>>
    ELSE LET mapped == [x \in Range(t1.Ord) \cup {fld} |->
                           IF x = fld THEN dummyOut ELSE unusedField(x)]
             ordered == t1.Ord
         IN  <<EqualsInvariant(dummyStruct, t1),
               EqualityWrapStructInvariant(dummyStruct, mapped, ordered)>>

\* lines 326-360: the invariants on the struct placeholder
StructInvariants(t1, fld) ==
    IF t1 = NilType THEN <<>>
    ELSE LET mapped == [x \in Range(t1.Ord) \cup {fld} |->
                           IF x = fld THEN dummyOut ELSE unusedField(x)]
             ordered == t1.Ord
         IN  <<EqualsInvariant(dummyStruct, t1)>> \o
             (IF fld # "" /\ MapGet(t1.Map, fld).exists
              THEN <<EqualityWrapStructInvariant(dummyStruct, mapped, ordered)>>
              ELSE <<>>)

OutInvariants_OptionalOnly(t2) ==
    IF t2 = NilType THEN <<>>
    ELSE <<EqualsInvariant(dummyOptional, t2)>>

\* lines 361-372: the invariants on the optional and the return placeholder
OutInvariants(t2) ==
    IF t2 = NilType THEN <<>>
    ELSE <<EqualsInvariant(dummyOptional, t2), EqualsInvariant(dummyOut, t2)>>

\* lines 390-391: no CallFuncArgsValueInvariant of expr was found
NoNewInvariants == [invariants |-> <<>>, err |-> ErrNoNewInvariants]

\* lines 163-392: fn(fnInvariants, solved), with the Expr.Type() and
\* Expr.Value() it reads through the invariant it finds
fn(fnInvs, sol, types, val) ==
    LET idx == FindCfav(fnInvs)
    IN  IF idx = 0 THEN NoNewInvariants
        ELSE
        LET cfavInvar == fnInvs[idx]
        IN  IF Len(cfavInvar.Args) # 3 THEN [invariants |-> <<>>, err |-> ErrArgs]
            ELSE IF val # NilValue /\ val.Kind # "str"
            THEN [invariants |-> <<>>, err |-> ErrFieldKind]
            ELSE
            LET a0 == cfavInvar.Args[1]
                a1 == cfavInvar.Args[2]
                a2 == cfavInvar.Args[3]
                fld == IF val # NilValue THEN Str(val) ELSE ""
                first == "first struct arg type is inconsistent"
                third == "third struct arg type is inconsistent"
                s0 == [t1 |-> NilType, t2 |-> NilType, err |-> GenNoErr]
                s1 == CheckSource(s0, validateArg0(s0, TypeOfExpr(types, a0), fld), first)
                s2 == CheckSource(s1, validateArg0(s1, TypeOfExpr(sol, a0), fld), first)
                s3 == CheckSource(s2, validateArg2OrOut(s2, TypeOfExpr(types, a2)), third)
                s4 == CheckSource(s3, validateArg2OrOut(s3, TypeOfExpr(sol, a2)), third)
                s5 == CheckSource(s4, validateArg2OrOut(s4, TypeOfExpr(types, cfavInvar.Expr)), third)
                s6 == CheckSource(s5, validateArg2OrOut(s5, TypeOfExpr(sol, cfavInvar.Expr)), third)
            IN  IF s6.err # GenNoErr THEN [invariants |-> <<>>, err |-> s6.err]
                ELSE [invariants |->
                        <<EqualityInvariant(cfavInvar.Expr, dummyOut),
                          EqualityInvariant(a0, dummyStruct),
                          EqualityInvariant(a1, dummyField),
                          EqualityInvariant(a2, dummyOptional),
                          EqualsInvariant(a1, TypeStr)>>
                        \o StructInvariants(s6.t1, fld)
                        \o OutInvariants(s6.t2)
                        \o <<EqualityWrapCallInvariant(cfavInvar.Expr, expr)>>,
                      err |-> GenNoErr]

(* The solver: what it knows of the call site and what it hands to fn *)

TypedExprs == {Arg(0), Arg(2), callExpr}
TypesFor(e) == IF e = Arg(0) THEN {TypeInt, StructAB, StructB}
                             ELSE {TypeInt, TypeStr}
ArgValues == {StrValue("a"), StrValue("b"), StrValue(""), IntValue(1)}
CallArgs(n) == [i \in 1..n |-> Arg(i - 1)]
otherInvariant == EqualityInvariant(otherExpr, callExpr)
cfavOther == CallFuncArgsValueInvariant(callExpr, otherExpr, CallArgs(3))
cfav(n) == CallFuncArgsValueInvariant(callExpr, expr, CallArgs(n))
InvariantLists ==
    {<<>>, <<otherInvariant>>, <<cfavOther>>, <<cfavOther, cfav(3)>>}
    \cup {<<cfav(n)>> : n \in {2, 3, 4}}

KnownFacts ==
    Cardinality({e \in TypedExprs : exprType[e] # NilType})
    + Cardinality({e \in TypedExprs : solved[e] # NilType})
    + (IF argValue # NilValue THEN 1 ELSE 0)

NoCall == [called |-> FALSE]

\* Type inference ends when Build has run (call.op # "none"): the steps below
\* are the solver's rounds before it.  What the generator returned belongs
\* to the round it was called in, so a step that changes what the solver
\* knows starts a new round with genRet = NoCall.

\* Expr.Type() of e becomes known
LearnType(e, t) ==
    /\ call.op = "none"
    /\ KnownFacts < MaxFacts
    /\ exprType[e] = NilType
    /\ exprType' = [exprType EXCEPT ![e] = t]
    /\ genRet' = NoCall
    /\ UNCHANGED <<fnInvariants, solved, argValue, asserted, firstOk, noProgress>>
    /\ UNCHANGED <<buildVars, outsideUnify>>

\* the solver records a type for e
LearnSolved(e, t) ==
    /\ call.op = "none"
    /\ KnownFacts < MaxFacts
    /\ solved[e] = NilType
    /\ solved' = [solved EXCEPT ![e] = t]
    /\ genRet' = NoCall
    /\ UNCHANGED <<fnInvariants, exprType, argValue, asserted, firstOk, noProgress>>
    /\ UNCHANGED <<buildVars, outsideUnify>>

\* Args[1].Value() becomes known
LearnValue(v) ==
    /\ call.op = "none"
    /\ KnownFacts < MaxFacts
    /\ argValue = NilValue
    /\ argValue' = v
    /\ genRet' = NoCall
    /\ UNCHANGED <<fnInvariants, exprType, solved, asserted, firstOk, noProgress>>
    /\ UNCHANGED <<buildVars, outsideUnify>>

\* the solver's invariant list grows
AddInvariant(inv) ==
    /\ call.op = "none"
    /\ Append(fnInvariants, inv) \in InvariantLists
    /\ fnInvariants' = Append(fnInvariants, inv)
    /\ genRet' = NoCall
    /\ UNCHANGED <<exprType, solved, argValue, asserted, firstOk, noProgress>>
    /\ UNCHANGED <<buildVars, outsideUnify>>

Placeholders == {dummyStruct, dummyField, dummyOptional, dummyOut}

\* the Equals invariants of a returned list, as <<expression, type>>
EqualsOf(invs) ==
    {<<invs[i].Expr, invs[i].Type>> : i \in {j \in 1..Len(invs) : invs[j].k = "Equals"}}

\* the solver calls the generator
Invoke ==
    /\ call.op = "none"
    /\ LET ret == fn(fnInvariants, solved, exprType, argValue)
       IN  /\ genRet' = [called |-> TRUE, invariants |-> ret.invariants, err |-> ret.err]
           /\ asserted' = asserted \cup
                 {p \in EqualsOf(ret.invariants) : p[1] \in Placeholders}
           /\ firstOk' = IF firstOk = -1 /\ ret.err = GenNoErr THEN KnownFacts
                         ELSE firstOk
           /\ noProgress' = (noProgress \/ ret.err = ErrNoNewInvariants)
    /\ UNCHANGED <<fnInvariants, exprType, solved, argValue>>
    /\ UNCHANGED <<buildVars, outsideUnify>>

\* the type the returned invariants fix for the expression e, NilType if none
SolvedType(invs, e) ==
    LET ts == {p[2] : p \in {q \in EqualsOf(invs) : q[1] = e}}
    IN  IF ts = {} THEN NilType ELSE CHOOSE t \in ts : TRUE

\* the signature the solver derives: func(struct T1, field str, optional T2) T2
SolvedSig(invs) ==
    FuncType(SubSeq(ArgNames, 1, 3),
             [struct |-> SolvedType(invs, dummyStruct), field |-> TypeStr,
              optional |-> SolvedType(invs, dummyOptional)],
             SolvedType(invs, dummyOut))

\* Build is run once the solver has both types
BuildSolved ==
    /\ call.op = "none"
    /\ genRet.called
    /\ genRet.err = GenNoErr
    /\ SolvedType(genRet.invariants, dummyStruct) # NilType
    /\ SolvedType(genRet.invariants, dummyOut) # NilType
    /\ Build(SolvedSig(genRet.invariants))

\* Init(init) has bound the channels and Stream was entered
StreamInit ==
    /\ last = NilValue
    /\ field = ""
    /\ result = NilValue
    /\ pc = "recv"
    /\ err = NoErr
    /\ output = <<>>
    /\ closes = 0
    /\ ctxDone = FALSE
    /\ inputOpen = TRUE
    /\ recvd = <<>>
    /\ computed = {}

\* &StructLookupOptionalFunc{}: no type recorded, no method called yet
BuildInit ==
    /\ Type = NilType
    /\ Out = NilType
    /\ call = [op |-> "none"]

\* Unify(expr) has returned the generator; the solver knows nothing yet
UnifyInit ==
    /\ fnInvariants = <<>>
    /\ exprType = [e \in TypedExprs |-> NilType]
    /\ solved = [e \in TypedExprs |-> NilType]
    /\ argValue = NilValue
    /\ genRet = NoCall
    /\ asserted = {}
    /\ firstOk = -1
    /\ noProgress = FALSE

Init == StreamInit /\ BuildInit /\ UnifyInit

Next ==
    \/ \E input \in Inputs : Recv(input)
    \/ RecvClosed
    \/ RecvCancelled
    \/ Send
    \/ SendCancelled
    \/ Cancel
    \/ CloseInput

Spec == Init /\ [][Next]_vars

\* A goroutine blocked in a select is woken when one of its cases is ready:
\* once the context is done, the ctx.Done() case of the select Stream is
\* blocked in stays ready, so Stream does not wait there forever. Nothing
\* obliges the engine to offer an input or to take an output.
FairSpec ==
    /\ Init
    /\ [][Next]_vars
    /\ WF_vars(RecvCancelled)
    /\ WF_vars(SendCancelled)

\* the node after construction: Stream has not been entered
StreamIdle ==
    /\ last = NilValue
    /\ field = ""
    /\ result = NilValue
    /\ pc = "idle"
    /\ err = NoErr
    /\ output = <<>>
    /\ closes = 0
    /\ ctxDone = FALSE
    /\ inputOpen = TRUE
    /\ recvd = <<>>
    /\ computed = {}

BuildSpecInit == StreamIdle /\ BuildInit /\ UnifyInit

BuildNext ==
    \/ \E typ \in BuildSigs : Build(typ)
    \/ Validate
    \/ Info
    \/ \E index \in Indexes : ArgGenCall(index)

BuildSpec == BuildSpecInit /\ [][BuildNext]_vars

UnifySpecInit == StreamIdle /\ BuildInit /\ UnifyInit

UnifyNext ==
    \/ \E e \in TypedExprs : \E t \in TypesFor(e) : LearnType(e, t)
    \/ \E e \in TypedExprs : \E t \in TypesFor(e) : LearnSolved(e, t)
    \/ \E v \in ArgValues : LearnValue(v)
    \/ \E inv \in {otherInvariant, cfavOther} \cup {cfav(n) : n \in {2, 3, 4}} :
          AddInvariant(inv)
    \/ Invoke
    \/ BuildSolved

UnifySpec == UnifySpecInit /\ [][UnifyNext]_vars

-----------------------------------------------------------------------------
(* Stream: properties *)

\* What the lookup of an aggregate is meant to yield
Expected(input) ==
    IF ArgField(input) \in DOMAIN ArgStruct(input).V
    THEN ArgStruct(input).V[ArgField(input)]
    ELSE ArgOptional(input)

NoEmissionFor(i) == \A k \in 1..Len(output) : output[k].idx # i

LastRecvd == recvd[Len(recvd)]

\* C1: for every input whose lookup ran, the calculated result is the
\* container's member under the selector when it has one and the fallback
\* when it has not, and every value sent on the output is that result of the
\* input that triggered it.
C1_ResultIsMemberOrFallback ==
    /\ \A i \in computed :
          i = Len(recvd) => ValueCmp(result, Expected(recvd[i]))
    /\ \A k \in 1..Len(output) :
          /\ output[k].idx \in computed
          /\ ValueCmp(output[k].val, Expected(recvd[output[k].idx]))

\* the fallback was sent for an absent member, although the container holds
\* another value
C1_Witness ==
    \E k \in 1..Len(output) :
        LET in == recvd[output[k].idx]
        IN  /\ ArgField(in) \notin DOMAIN ArgStruct(in).V
            /\ output[k].val = ArgOptional(in)
            /\ \A f \in DOMAIN ArgStruct(in).V : ArgStruct(in).V[f] # ArgOptional(in)

\* C2: an aggregate equal to the immediately preceding received aggregate
\* causes no lookup, no change of the node's state and no emission.
C2_DuplicateSkipped ==
    /\ [](\A i \in 2..Len(recvd) :
            ValueCmp(recvd[i], recvd[i-1]) => i \notin computed /\ NoEmissionFor(i))
    /\ [][(/\ Len(recvd) >= 1
           /\ Len(recvd') = Len(recvd) + 1
           /\ ValueCmp(recvd'[Len(recvd')], LastRecvd))
          => UNCHANGED <<last, field, result, pc, err, output, closes, computed>>]_vars

\* the same aggregate was received three times in a row and sent once
C2_Witness ==
    /\ Len(recvd) >= 3
    /\ recvd[1] = recvd[2]
    /\ recvd[2] = recvd[3]
    /\ Len(output) = 1

\* C3: no two consecutive values sent on the output are structurally equal.
C3_NoEqualConsecutiveOutputs ==
    \A k \in 1..(Len(output) - 1) : ~ValueCmp(output[k].val, output[k+1].val)

\* an input that differs from the previous one had its lookup run, gave the
\* same result and was not sent, between two sends
C3_Witness ==
    /\ Len(output) >= 2
    /\ \E i \in computed :
          /\ i > 1
          /\ recvd[i] # recvd[i-1]
          /\ Expected(recvd[i]) = Expected(recvd[i-1])
          /\ NoEmissionFor(i)
          /\ output[1].idx < i
          /\ output[2].idx > i

\* C4: the first non-empty selector received pins the node and the pinned
\* field never changes; a later input with another non-empty selector ends
\* Stream with an error and nothing is sent for it; an input carrying the
\* pinned selector never ends Stream with an error.
C4_SelectorPinned ==
    /\ field # "" => recvd # <<>> /\ field = ArgField(recvd[1])
    /\ (recvd # <<>> /\ ArgField(recvd[1]) # "") => field = ArgField(recvd[1])
    /\ \A i \in 2..Len(recvd) :
          ArgField(recvd[i]) \notin {"", ArgField(recvd[1])}
          => /\ i = Len(recvd)
             /\ pc = "done"
             /\ err = ErrFieldChanged
             /\ NoEmissionFor(i)
             /\ i \notin computed
    /\ \A i \in 1..Len(recvd) :
          (ArgField(recvd[i]) # "" /\ ArgField(recvd[i]) = ArgField(recvd[1]))
          => ~(i = Len(recvd) /\ err # NoErr)

\* the pinned selector was received twice, then another one ended Stream
C4_Witness ==
    /\ Len(recvd) = 3
    /\ ArgField(recvd[1]) = "a"
    /\ ArgField(recvd[2]) = "a"
    /\ recvd[1] # recvd[2]
    /\ ArgField(recvd[3]) = "b"
    /\ err = ErrFieldChanged

\* C5: an input whose selector is empty ends Stream with an error and
\* nothing is sent for it, as first input or after a selector was pinned.
C5_EmptySelectorErrors ==
    \A i \in 1..Len(recvd) :
        ArgField(recvd[i]) = ""
        => /\ i = Len(recvd)
           /\ pc = "done"
           /\ err = ErrEmptyField
           /\ NoEmissionFor(i)
           /\ i \notin computed

\* an empty selector arrived after a selector was pinned
C5_Witness ==
    /\ Len(recvd) >= 2
    /\ field # ""
    /\ ArgField(LastRecvd) = ""
    /\ err = ErrEmptyField

-----------------------------------------------------------------------------
(* Build: properties *)

\* the type of the i-th argument of a function signature, NilType if missing
ArgTypeOf(typ, i) ==
    IF typ.Map = NilMap \/ i > Len(typ.Ord) THEN NilType
    ELSE IF typ.Ord[i] \notin DOMAIN typ.Map THEN NilType
    ELSE typ.Map[typ.Ord[i]]

\* the signatures Build is to reject
Rejectable(typ) ==
    \/ typ.Kind # "func"
    \/ Len(typ.Ord) # 3
    \/ typ.Out = NilType
    \/ \E i \in 1..3 : ArgTypeOf(typ, i) = NilType
    \/ ArgTypeOf(typ, 2) # TypeStr
    \/ ArgTypeOf(typ, 3) # typ.Out

\* C6: Build returns an error for a signature that is not a function, has an
\* argument count other than 3, lacks the return type or an argument type,
\* has a second argument type other than str or a third argument type other
\* than the return type; a rejecting Build leaves obj.Type and obj.Out as
\* they were.
C6_BuildRejects ==
    /\ []((call.op = "Build" /\ Rejectable(call.arg))
            => call.err # NoErr /\ call.ret = NilType)
    /\ [][(call'.op = "Build" /\ call'.err # NoErr) => UNCHANGED <<Type, Out>>]_vars

\* after a successful Build, a signature whose fallback type differs from its
\* return type was rejected and the recorded types were kept
C6_Witness ==
    /\ call.op = "Build"
    /\ call.err = ErrOptionalMismatch
    /\ Type = StructAB
    /\ Out = TypeInt

-----------------------------------------------------------------------------
(* Unify: properties of the generator *)

\* the candidate types the sources give for the container
ContainerSources == {exprType[Arg(0)], solved[Arg(0)]} \ {NilType}

\* the selector has a statically known, non-empty name
SelectorKnown ==
    argValue # NilValue /\ argValue.Kind = "str" /\ argValue.V # ""
Selector == argValue.V

\* the types of the selected member inside the container candidates
MemberTypes ==
    IF SelectorKnown
    THEN {T.Map[Selector] :
            T \in {U \in ContainerSources :
                     U.Kind = "struct" /\ Selector \in DOMAIN U.Map}}
    ELSE {}

\* the candidate types of the fallback argument and of the call expression
FallbackSources ==
    {exprType[Arg(2)], solved[Arg(2)], exprType[callExpr], solved[callExpr]}
        \ {NilType}

\* the candidate types for the fallback/return unknown
OutSources == FallbackSources \cup MemberTypes

\* the invariant list holds the call-site fact of expr / with three arguments
CallSiteFacts ==
    {i \in 1..Len(fnInvariants) :
        fnInvariants[i].k = "CallFuncArgsValue" /\ fnInvariants[i].Func = expr}
ThreeArgCallSite ==
    /\ CallSiteFacts # {}
    /\ \A i \in CallSiteFacts : Len(fnInvariants[i].Args) = 3

\* the known facts do not contradict each other
Consistent ==
    /\ Cardinality(ContainerSources) <= 1
    /\ \A T \in ContainerSources : T.Kind = "struct"
    /\ argValue = NilValue \/ argValue.Kind = "str"
    /\ Cardinality(OutSources) <= 1

Returned == IF genRet.called THEN Range(genRet.invariants) ELSE {}

\* the types the returned invariants assert for the placeholder p
AssertedFor(p) == {inv.Type : inv \in {i \in Returned : i.k = "Equals" /\ i.Expr = p}}

\* C7: a member missing from the known container type is no reason for
\* rejection: with the selector name known and absent from the container type
\* the generator returns invariants, the fallback and return placeholders
\* being constrained by exactly the fallback and return type sources; and
\* Build accepts the signature solved for such a call.
C7_MissingMemberAccepted ==
    /\ (/\ genRet.called
        /\ ThreeArgCallSite
        /\ SelectorKnown
        /\ Cardinality(ContainerSources) = 1
        /\ \A T \in ContainerSources : T.Kind = "struct" /\ Selector \notin DOMAIN T.Map
        /\ Cardinality(FallbackSources) <= 1)
       => /\ genRet.err = GenNoErr
          /\ AssertedFor(dummyStruct) = ContainerSources
          /\ AssertedFor(dummyOut) = FallbackSources
          /\ AssertedFor(dummyOptional) = FallbackSources
          /\ \A inv \in Returned : inv.k # "EqualityWrapStruct"
    /\ (/\ call.op = "Build"
        /\ SelectorKnown
        /\ Selector \notin DOMAIN ArgTypeOf(call.arg, 1).Map)
       => /\ call.err = NoErr
          /\ Type = ArgTypeOf(call.arg, 1)
          /\ Out = call.arg.Out

\* Build accepted a signature solved for a call whose selector "a" is no
\* member of the container type
C7_Witness ==
    /\ call.op = "Build"
    /\ call.err = NoErr
    /\ argValue = StrValue("a")
    /\ Type = StructB
    /\ Out = TypeInt
    /\ AssertedFor(dummyOut) = {TypeInt}

\* C8: whenever two sources give differing candidate types for the container
\* type or for the fallback/return type, the generator returns an error and
\* no invariants.
C8_ConflictIsError ==
    (genRet.called /\ (Cardinality(ContainerSources) > 1 \/ Cardinality(OutSources) > 1))
    => /\ genRet.err # GenNoErr
       /\ genRet.invariants = <<>>

\* the selected member's type and a later fallback source differ, the
\* container sources agree
C8_Witness ==
    /\ genRet.called
    /\ ThreeArgCallSite
    /\ exprType[Arg(0)] = StructAB
    /\ solved[Arg(0)] = StructAB
    /\ argValue = StrValue("a")
    /\ exprType[Arg(2)] = NilType
    /\ solved[callExpr] = TypeStr
    /\ genRet.err # GenNoErr

\* C9: with a three-argument call site and consistent facts the generator
\* returns invariants; once container type and selector are known and the
\* member exists they assert the member's type for the return and fallback
\* placeholders; once the member is known absent and a fallback/return type
\* is known they assert that type; and over all calls made while the facts
\* grow no placeholder is asserted two different types.
C9_Convergence ==
    /\ (genRet.called /\ ThreeArgCallSite /\ Consistent)
       => /\ genRet.err = GenNoErr
          /\ \A T \in ContainerSources :
                (SelectorKnown /\ Selector \in DOMAIN T.Map)
                => /\ EqualsInvariant(dummyOut, T.Map[Selector]) \in Returned
                   /\ EqualsInvariant(dummyOptional, T.Map[Selector]) \in Returned
          /\ \A T \in ContainerSources : \A t \in FallbackSources :
                (SelectorKnown /\ Selector \notin DOMAIN T.Map)
                => EqualsInvariant(dummyOut, t) \in Returned
    /\ \A p \in asserted : \A q \in asserted : p[1] = q[1] => p[2] = q[2]

\* a call returned invariants with fewer facts known, and now container type,
\* selector and fallback type are known and the member's type is asserted
C9_Witness ==
    /\ genRet.called
    /\ genRet.err = GenNoErr
    /\ firstOk >= 0
    /\ firstOk < KnownFacts
    /\ ContainerSources = {StructAB}
    /\ argValue = StrValue("a")
    /\ FallbackSources = {TypeInt}
    /\ EqualsInvariant(dummyOut, TypeInt) \in Returned
    /\ <<dummyOut, TypeInt>> \in asserted

\* C10: without a call-argument-value invariant of expr in the list the
\* generator returns no invariants and the "couldn't generate new
\* invariants" error; a later call whose list holds it (three arguments,
\* consistent facts) returns invariants.
C10_NoProgressIsRecoverable ==
    /\ (genRet.called /\ CallSiteFacts = {})
       => /\ genRet.invariants = <<>>
          /\ genRet.err = ErrNoNewInvariants
    /\ (noProgress /\ genRet.called /\ ThreeArgCallSite /\ Consistent)
       => /\ genRet.err = GenNoErr
          /\ genRet.invariants # <<>>

\* a call made without the fact made no progress (the list held another
\* function's fact); the call made once the fact had arrived returned
\* invariants
C10_Witness ==
    /\ noProgress
    /\ fnInvariants = <<cfavOther, cfav(3)>>
    /\ genRet.called
    /\ genRet.err = GenNoErr
    /\ Len(genRet.invariants) > 6

-----------------------------------------------------------------------------
(* Stream: termination, cancellation and ordering *)

\* C11: on every exit path of Stream the output stream is closed exactly
\* once, at the return and not before it, and nothing is sent afterwards;
\* when the input stream is closed Stream returns with no error and the
\* output closed.
C11_OutputClosedOnceOnExit ==
    /\ [](closes = IF pc = "done" THEN 1 ELSE 0)
    /\ [][pc = "done" => (pc' = "done" /\ output' = output /\ closes' = closes)]_vars
    /\ [][(pc = "recv" /\ ~inputOpen /\ pc' = "done")
            => (err' = NoErr /\ closes' = 1)]_vars

\* Stream returned because its input was closed, after it had sent a value
C11_Witness ==
    /\ pc = "done"
    /\ ~inputOpen
    /\ ~ctxDone
    /\ err = NoErr
    /\ closes = 1
    /\ Len(output) > 0

\* C12, as stated: once the context is done Stream takes no further input
\* and sends no further value.
C12_NothingAfterCancel ==
    [][ctxDone => (recvd' = recvd /\ output' = output)]_vars

\* C12, amended: once the context is done the ctx.Done() case of the select
\* Stream waits in is ready, so Stream may return there, and a step of Stream
\* that neither takes an input nor sends a value is a return with no error;
\* the select may still choose a ready input or a ready consumer instead.
C12_CancelBranchReady ==
    /\ []((ctxDone /\ pc = "recv") => ENABLED RecvCancelled)
    /\ []((ctxDone /\ pc = "send") => ENABLED SendCancelled)
    /\ [][(ctxDone /\ pc # "done" /\ recvd' = recvd /\ output' = output
             /\ inputOpen' = inputOpen)
            => (pc' = "done" /\ err' = NoErr)]_vars

\* Stream returned from its pending first send because the context was done
C12_Witness ==
    /\ pc = "done"
    /\ ctxDone
    /\ inputOpen
    /\ err = NoErr
    /\ computed # {}
    /\ output = <<>>

\* C13, as stated: whenever the context is done while Stream runs, Stream
\* eventually returns, and with no error.
C13_ReturnsWithoutError ==
    (ctxDone /\ pc # "done") ~> (pc = "done" /\ err = NoErr)

\* C13, amended: whenever the context is done while Stream runs, Stream
\* eventually returns, whether or not an input arrives or the consumer
\* receives; it returns with no error unless it took one more input after
\* the cancellation.
C13_CancelTerminates ==
    /\ (ctxDone /\ pc # "done") ~> (pc = "done")
    /\ [][(ctxDone /\ pc # "done" /\ pc' = "done" /\ recvd' = recvd)
            => err' = NoErr]_vars

\* Stream returned from the receive, cancelled before any input arrived
C13_Witness ==
    /\ pc = "done"
    /\ ctxDone
    /\ inputOpen
    /\ recvd = <<>>
    /\ err = NoErr

\* C14: the values sent are the results of the inputs in the order received,
\* at most one per input; the value offered is the result of the input
\* received last; no input is received while a send is pending, and each
\* send completes the one pending send.
C14_OrderedSingleSends ==
    /\ [](\A k \in 1..Len(output) :
            /\ output[k].idx \in 1..Len(recvd)
            /\ output[k].val = Expected(recvd[output[k].idx])
            /\ k > 1 => output[k - 1].idx < output[k].idx)
    /\ [](pc = "send" =>
            /\ NoEmissionFor(Len(recvd))
            /\ result = Expected(LastRecvd))
    /\ [][recvd' # recvd => pc = "recv"]_vars
    /\ [][output' # output =>
            /\ pc = "send"
            /\ pc' = "recv"
            /\ output' = Append(output, [val |-> result, idx |-> Len(recvd)])]_vars

\* the first and the third input were sent, the second gave nothing to send
C14_Witness ==
    /\ Len(recvd) = 3
    /\ Len(output) = 2
    /\ output[1].idx = 1
    /\ output[2].idx = 3

-----------------------------------------------------------------------------
(* ArgGen, Info, Validate, Build: properties *)

\* C15: ArgGen returns the name "struct", "field", "optional" for the index
\* 0, 1, 2 and returns an error, without crashing, for every other index,
\* the negative ones included.
C15_ArgGenErrorsOutside ==
    call.op = "ArgGen" =>
        IF call.arg \in 0..2
        THEN /\ ~call.ret.panic
             /\ call.ret.err = NoErr
             /\ call.ret.name = <<"struct", "field", "optional">>[call.arg + 1]
        ELSE /\ ~call.ret.panic
             /\ call.ret.err # NoErr

\* the signature func(struct T, field str, optional O) O
LookupSig(T, O) ==
    [Kind |-> "func", Ord |-> <<"struct", "field", "optional">>,
     Map |-> [struct |-> T, field |-> TypeStr, optional |-> O], Out |-> O]

\* C16: Info returns in every state of the lifecycle. Before a successful
\* Build it returns a nil signature and a validation error; after one it
\* returns the signature Build returned, and the error Validate returns. Info
\* is always marked pure, and changes nothing of the node.
C16_InfoNeverFails ==
    /\ [](~Panicked => ENABLED Info)
    /\ [](call.op = "Info" =>
            /\ call.ret.Pure
            /\ IF Type = NilType
               THEN call.ret.Sig = NilType /\ call.ret.Err # NoErr
               ELSE call.ret.Sig = LookupSig(Type, Out))
    /\ [][(call.op = "Build" /\ call.err = NoErr /\ call'.op = "Info")
            => call'.ret.Sig = call.ret]_vars
    /\ [][(call.op = "Info" /\ call'.op = "Validate") => call'.err = call.ret.Err]_vars
    /\ [][(call.op = "Validate" /\ call'.op = "Info") => call'.ret.Err = call.err]_vars
    /\ [][call'.op = "Info" => UNCHANGED <<Type, Out, streamVars, unifyVars>>]_vars

\* Info was called after a successful Build of a struct container
C16_Witness ==
    /\ call.op = "Info"
    /\ Type = StructAB
    /\ call.ret.Sig = LookupSig(StructAB, Out)
    /\ call.ret.Err = NoErr

\* C17: Validate succeeds exactly when the container type is set and is of
\* kind struct and the return type is set, returns an error otherwise (before
\* any Build, and after a Build of a container that is no struct), and
\* changes nothing of the node.
C17_ValidatePure ==
    /\ [](call.op = "Validate" =>
            (call.err = NoErr <=>
                (Type # NilType /\ Type.Kind = "struct" /\ Out # NilType)))
    /\ [][(call.op = "Build" /\ call.err = NoErr /\ ArgTypeOf(call.arg, 1).Kind # "struct"
             /\ call'.op = "Validate")
            => call'.err # NoErr]_vars
    /\ [][call'.op = "Validate" => UNCHANGED <<Type, Out, streamVars, unifyVars>>]_vars

\* Build accepted an int container and Validate then returned the error
C17_Witness ==
    /\ call.op = "Validate"
    /\ Type = TypeInt
    /\ Out # NilType
    /\ call.err = ErrTypeNotStruct

\* C18: a successful Build records the type of the first argument as the
\* container type and the return type as the result type, returns the
\* signature made of them, and leaves the selector and the rest of the
\* streaming state alone; Build again with the same signature gives the same
\* result and the same state.
C18_BuildRecords ==
    /\ []((call.op = "Build" /\ call.err = NoErr) =>
            /\ Type = ArgTypeOf(call.arg, 1)
            /\ Out = call.arg.Out
            /\ call.ret = LookupSig(ArgTypeOf(call.arg, 1), call.arg.Out))
    /\ [][call'.op = "Build" => UNCHANGED <<streamVars, unifyVars>>]_vars
    /\ [][(call.op = "Build" /\ call'.op = "Build" /\ call'.arg = call.arg)
            => (call' = call /\ Type' = Type /\ Out' = Out)]_vars

\* Build succeeded for func(struct struct{a int; b str}, field str,
\* optional int) int and no selector is fixed
C18_Witness ==
    /\ call.op = "Build"
    /\ call.err = NoErr
    /\ Type = StructAB
    /\ Out = TypeInt
    /\ call.ret = LookupSig(StructAB, TypeInt)
    /\ field = ""

-----------------------------------------------------------------------------
(* Unify: what the generator returns *)

\* the positions of the struct-shape invariants in the returned list
WrapStructs ==
    {i \in 1..Len(genRet.invariants) : genRet.invariants[i].k = "EqualityWrapStruct"}

\* the returned invariants that constrain the container placeholder alone
OnContainer ==
    {inv \in Returned : \/ inv.k = "Equals" /\ inv.Expr = dummyStruct
                        \/ inv.k = "EqualityWrapStruct"}

\* every expression that is no fresh placeholder of a member
NamedExprs ==
    Placeholders \cup TypedExprs \cup {expr, otherExpr, callExpr, Arg(1)}

\* C19: a list the generator returns holds a struct-shape invariant exactly
\* when the container type is known, the selector name is statically known and
\* non-empty, and the container type has a member of that name. That
\* invariant is on the container placeholder, lists the members in the order
\* of the container type, maps the selected member to the return placeholder
\* and every other member to a placeholder of its own. With the container
\* type T known and the selector unknown or no member of T, the container
\* placeholder is constrained by its equality with T only.
C19_WrapStructExactlyWhenMember ==
    (genRet.called /\ genRet.err = GenNoErr) =>
        /\ WrapStructs # {} <=>
              /\ ContainerSources # {}
              /\ SelectorKnown
              /\ \E T \in ContainerSources : Selector \in DOMAIN T.Map
        /\ Cardinality(WrapStructs) <= 1
        /\ \A i \in WrapStructs :
              LET w == genRet.invariants[i]
                  T == CHOOSE U \in ContainerSources : TRUE
              IN  /\ w.Expr1 = dummyStruct
                  /\ w.Expr2Ord = T.Ord
                  /\ DOMAIN w.Expr2Map = Range(T.Ord)
                  /\ w.Expr2Map[Selector] = dummyOut
                  /\ \A x \in DOMAIN w.Expr2Map \ {Selector} :
                        /\ w.Expr2Map[x] \notin NamedExprs
                        /\ \A y \in DOMAIN w.Expr2Map \ {x} :
                              w.Expr2Map[y] # w.Expr2Map[x]
        /\ \A T \in ContainerSources :
              (~SelectorKnown \/ Selector \notin DOMAIN T.Map)
                  => OnContainer = {EqualsInvariant(dummyStruct, T)}

\* the container is struct{a int; b str} and the selector is "a": member b
\* gets a placeholder of its own
C19_Witness ==
    /\ genRet.called
    /\ genRet.err = GenNoErr
    /\ ContainerSources = {StructAB}
    /\ SelectorKnown
    /\ Selector = "a"
    /\ WrapStructs # {}

\* the call-site fact of expr the generator stops at: the first in the list
FirstCallSite ==
    fnInvariants[CHOOSE i \in CallSiteFacts : \A j \in CallSiteFacts : i <= j]

\* C20: having found the call-site fact, the generator returns an error and
\* no invariants when the call has not three arguments, when the selector has
\* a static value that is no str, or when a known candidate for the container
\* type is no struct; a selector with no static value is by itself no error;
\* a list returned without error is not empty and ends with the one equality
\* of the call expression with a call of this function.
C20_GeneratorErrors ==
    (genRet.called /\ CallSiteFacts # {}) =>
        /\ (\/ Len(FirstCallSite.Args) # 3
            \/ argValue # NilValue /\ argValue.Kind # "str"
            \/ \E T \in ContainerSources : T.Kind # "struct")
              => (genRet.err # GenNoErr /\ genRet.invariants = <<>>)
        /\ (/\ Len(FirstCallSite.Args) = 3
            /\ argValue = NilValue
            /\ Consistent)
              => genRet.err = GenNoErr
        /\ genRet.err = GenNoErr =>
              /\ Len(genRet.invariants) > 0
              /\ genRet.invariants[Len(genRet.invariants)]
                    = EqualityWrapCallInvariant(callExpr, expr)
              /\ Cardinality({i \in 1..Len(genRet.invariants) :
                                genRet.invariants[i].k = "EqualityWrapCall"}) = 1

\* the container argument is known to be an int: the generator returned the
\* error and nothing else
C20_Witness ==
    /\ genRet.called
    /\ CallSiteFacts # {}
    /\ Len(FirstCallSite.Args) = 3
    /\ TypeInt \in ContainerSources
    /\ genRet.err = Wrapf(ErrStructKind, "first struct arg type is inconsistent")
    /\ genRet.invariants = <<>>

====
